---- MODULE Spec2Model ----
(***************************************************************************)
(* Model of pywikibot/data/sparql.py: the SPARQL query client              *)
(* (SparqlQuery), its retry loop around the HTTP transport, the JSON       *)
(* decode / login-wall classification, the projection of SELECT results    *)
(* and the RDF node classes URI, Literal and Bnode.                        *)
(*                                                                         *)
(* Python strings and byte strings are modelled as sequences of atomic     *)
(* chunks, so that startswith, "in", removeprefix, quote and decode are    *)
(* computed and not assumed.                                               *)
(***************************************************************************)
EXTENDS Integers, Sequences, FiniteSets, TLC

(***************************************************************************)
(* Bounds of the model.                                                    *)
(***************************************************************************)
\* longest results.bindings list the transport returns
MaxRows == 2
\* longest non-JSON response body, in chunks
MaxBody == 2
\* the retry budget of the wait primitive (config.max_retries, scaled down)
MaxRetries == 2
\* calls that time out once more although the retry budget of their client
\* is already used up
MaxOverrun == 1
\* longest URI value and longest entity prefix given to URI.getID, in chunks
MaxUri == 3
MaxPrefix == 2

Threads == {"t1", "t2"}
Clients == {"c1", "c2"}
\* the single-threaded use of one client that the module is written for
SeqThreads == {"t1"}
SeqClients == {"c1"}

(***************************************************************************)
(* Python values.                                                          *)
(***************************************************************************)
PyNone == [t |-> "None"]
PyStr(s) == [t |-> "str", s |-> s]
PyBool(b) == [t |-> "bool", b |-> b]
PyList(items) == [t |-> "list", items |-> items]
PySet(elems) == [t |-> "set", elems |-> elems]
PyJson(doc) == [t |-> "json", doc |-> doc]
\* a dict built by insertion: the keys in insertion order and the mapping
PyDict(keys, get) == [t |-> "dict", keys |-> keys, get |-> get]

\* how a call ends: it returns a value or raises an exception
Return(v) == [kind |-> "return", value |-> v]
Raise(exc, arg) == [kind |-> "raise", exc |-> exc, arg |-> arg]
NoResult == [kind |-> "none"]

\* Python truthiness of None and of the empty str
Falsy(x) == x = PyNone \/ x = PyStr(<<>>)

\* str.startswith
StartsWith(s, p) == Len(p) <= Len(s) /\ SubSeq(s, 1, Len(p)) = p
\* the "in" operator on str
Contains(s, p) == \E i \in 0..(Len(s) - Len(p)) : SubSeq(s, i + 1, i + Len(p)) = p
\* pywikibot.backports.removeprefix, called once startswith holds
removeprefix(s, p) == IF StartsWith(s, p) THEN SubSeq(s, Len(p) + 1, Len(s)) ELSE s

\* the sequences over S of length at most n
SeqUpTo(S, n) == UNION {[1..k -> S] : k \in 0..n}

(***************************************************************************)
(* Endpoints, entity prefixes, query texts, headers.                       *)
(***************************************************************************)
CommonsHost == "https://commons-query.wikimedia.org"
CommonsEndpoint == <<CommonsHost, "/sparql">>
WikidataEndpoint == <<"https://query.wikidata.org", "/sparql">>
EntityUrl == <<"http://www.wikidata.org/entity/">>

DEFAULT_HEADERS == [cache_control |-> "no-cache", Accept |-> "application/sparql-results+json"]
CustomHeaders == [Accept |-> "application/json"]

\* urllib.parse.quote with its default safe='/': per chunk
quoteChunk(c) ==
  CASE c = " " -> "%20"
    [] c = "{}" -> "%7B%7D"
    [] c = CommonsHost -> "https%3A//commons-query.wikimedia.org"
    [] OTHER -> c
quote(s) == [i \in 1..Len(s) |-> quoteChunk(s[i])]

(***************************************************************************)
(* The wire format: term descriptors, binding rows, JSON documents.        *)
(***************************************************************************)
VALUE_TYPES == [uri |-> "URI", literal |-> "Literal", bnode |-> "Bnode"]

TermUriIn == [type |-> "uri", value |-> EntityUrl \o <<"Q1">>]
TermUriOut == [type |-> "uri", value |-> <<"http://other.org/", "Q1">>]
TermLiteral == [type |-> "literal", value |-> <<"5">>, datatype |-> <<"xsd:int">>]
TermBnode == [type |-> "bnode", value |-> <<"b0">>]
TermUnknown == [type |-> "typed-literal", value |-> <<"7">>]
Absent == [absent |-> TRUE]

ItemTerms == {Absent, TermUriIn, TermUriOut, TermLiteral, TermBnode, TermUnknown}

\* a binding row: the variables it binds, each with its term descriptor
MkRow(item, label) ==
  [v \in {w \in {"item", "label"} : (IF w = "item" THEN item ELSE label) # Absent}
     |-> IF v = "item" THEN item ELSE label]
\* rows binding at most ?item, and two rows binding ?label
Rows == {MkRow(i, Absent) : i \in ItemTerms}
          \cup {MkRow(TermUriIn, TermLiteral), MkRow(Absent, TermLiteral)}

VarLists == {<<"item">>, <<"label", "item">>}

SelectDocs ==
  {[head |-> [vars |-> vs], results |-> [bindings |-> bs]] :
     vs \in VarLists, bs \in SeqUpTo(Rows, MaxRows)}
\* ASK documents, the empty object, and an object with results but no head
OtherDocs ==
  {[boolean |-> TRUE], [boolean |-> FALSE], <<>>,
   [results |-> [bindings |-> <<>>]]}
Docs == SelectDocs \cup OtherDocs

(***************************************************************************)
(* Responses of the transport: raw byte content.                           *)
(***************************************************************************)
DOCTYPE == "<!DOCTYPE html>"
\* a byte that is not valid UTF-8
BadByte == "0xFF"
TextChunks == {DOCTYPE, "Special:UserLogin", "Special:OAuth", "junk", BadByte}

TextBodies == {[i \in DOMAIN b |-> [kind |-> "text", s |-> b[i]]] : b \in SeqUpTo(TextChunks, MaxBody)}
JsonBodies == {<<[kind |-> "json", doc |-> d]>> : d \in Docs}

Responses == {[content |-> b] : b \in TextBodies \cup JsonBodies}

\* Response.json(): the document when the body is one serialised document
IsJson(resp) == Len(resp.content) = 1 /\ resp.content[1].kind = "json"
json(resp) ==
  IF IsJson(resp) THEN Return(PyJson(resp.content[1].doc))
  ELSE Raise("JSONDecodeError", <<>>)

\* bytes.decode(): strict UTF-8
decode(content) ==
  IF \E i \in DOMAIN content : content[i].kind = "text" /\ content[i].s = BadByte
  THEN Raise("UnicodeDecodeError", <<>>)
  ELSE Return([i \in DOMAIN content |->
                 IF content[i].kind = "text" THEN content[i].s ELSE "{json}"])

(***************************************************************************)
(* SparqlQuery.query: the part after the retry loop.                       *)
(***************************************************************************)
NotLoggedIn == <<"User not logged in. You need to log in to Wikimedia Commons and give OAUTH permission.">>

\* self.last_response.json() at line 164: the handle may be empty
tryJson(resp) ==
  IF resp = PyNone THEN Raise("AttributeError", <<"'NoneType' object has no attribute 'json'">>)
  ELSE json(resp)

\* the except clause, lines 165-181, and the final return None: it reads
\* self.last_response again
classify(url, resp) ==
  IF resp = PyNone THEN Raise("AttributeError", <<"'NoneType' object has no attribute 'content'">>)
  ELSE LET strcontent == decode(resp.content) IN
       IF strcontent.kind = "raise" THEN strcontent
       ELSE IF /\ StartsWith(strcontent.value, <<DOCTYPE>>)
               /\ Contains(url, <<CommonsHost>>)
               /\ \/ Contains(strcontent.value, <<"Special:UserLogin">>)
                  \/ Contains(strcontent.value, <<"Special:OAuth">>)
            THEN Raise("NoUsernameError", NotLoggedIn)
            ELSE Return(PyNone)

\* lines 163-183 when both reads of self.last_response see the response resp
queryDecode(url, resp) ==
  LET j == tryJson(resp) IN
  IF j.kind = "raise" /\ j.exc = "JSONDecodeError" THEN classify(url, resp) ELSE j

(***************************************************************************)
(* The RDF node classes.                                                   *)
(***************************************************************************)
\* the keys of a JSON object or of a binding row
Keys(obj) == IF obj = <<>> THEN {} ELSE DOMAIN obj
\* dict.get(key): None when the key is missing
dictGet(d, key) == IF key \in Keys(d) THEN PyStr(d[key]) ELSE PyNone

URI(data, entity_url) == [t |-> "URI", value |-> dictGet(data, "value"), entity_url |-> entity_url]
Literal(data) ==
  [t |-> "Literal", value |-> dictGet(data, "value"),
   type |-> dictGet(data, "datatype"), language |-> dictGet(data, "xml:lang")]
Bnode(data) == [t |-> "Bnode", value |-> dictGet(data, "value")]

\* the constructor the dispatch table names, called as valtype(row[var], entity_url=...)
valtype(name, data, entity_url) ==
  CASE name = "URI" -> URI(data, entity_url)
    [] name = "Literal" -> Literal(data)
    [] name = "Bnode" -> Bnode(data)

\* variant: the prefix is stripped without the startswith test
getIDNoCheck(node) == PyStr(removeprefix(node.value.s, node.entity_url.s))

\* URI.getID
getID(node) ==
  IF StartsWith(node.value.s, node.entity_url.s)
  THEN PyStr(removeprefix(node.value.s, node.entity_url.s))
  ELSE PyNone

\* an f-string field: str(x)
fstr(x) == IF x = PyNone THEN <<"None">> ELSE x.s

\* variant: Literal.__repr__ looks at the language tag first
reprLanguageFirst(node) ==
  CASE node.t = "URI" -> Return(PyStr(<<"<">> \o fstr(node.value) \o <<">">>))
    [] node.t = "Bnode" -> Return(PyStr(<<"_:">> \o fstr(node.value)))
    [] node.t = "Literal" ->
         IF ~Falsy(node.language)
         THEN Return(PyStr(fstr(node.value) \o <<"@">> \o fstr(node.language)))
         ELSE IF ~Falsy(node.type)
              THEN Return(PyStr(fstr(node.value) \o <<"^^">> \o fstr(node.type)))
              ELSE IF node.value = PyNone
                   THEN Raise("TypeError", <<"__repr__ returned non-string">>)
                   ELSE Return(node.value)

\* repr(node): URI.__repr__, Literal.__repr__, Bnode.__repr__
repr(node) ==
  CASE node.t = "URI" -> Return(PyStr(<<"<">> \o fstr(node.value) \o <<">">>))
    [] node.t = "Bnode" -> Return(PyStr(<<"_:">> \o fstr(node.value)))
    [] node.t = "Literal" ->
         IF ~Falsy(node.type)
         THEN Return(PyStr(fstr(node.value) \o <<"^^">> \o fstr(node.type)))
         ELSE IF ~Falsy(node.language)
              THEN Return(PyStr(fstr(node.value) \o <<"@">> \o fstr(node.language)))
              ELSE IF node.value = PyNone
                   THEN Raise("TypeError", <<"__repr__ returned non-string">>)
                   ELSE Return(node.value)

(***************************************************************************)
(* SparqlQuery.select: the projection of the decoded document.             *)
(***************************************************************************)
\* values[var] = ... : appends the key on first insertion
dictSet(d, key, v) ==
  PyDict(IF key \in Keys(d.get) THEN d.keys ELSE Append(d.keys, key),
         [k \in Keys(d.get) \cup {key} |-> IF k = key THEN v ELSE d.get[k]])

\* variant: a variable missing from the row yields an empty str, not None
bindValueNoNull(row, var, full_data, entity_url) ==
  IF var \notin Keys(row) THEN Return(PyStr(<<>>))
  ELSE IF full_data
       THEN IF row[var].type \notin DOMAIN VALUE_TYPES
            THEN Raise("ValueError", <<"Unknown type: ", row[var].type>>)
            ELSE Return(valtype(VALUE_TYPES[row[var].type], row[var], entity_url))
       ELSE Return(PyStr(row[var].value))

\* variant: the type tag is checked in both modes
bindValueStrict(row, var, full_data, entity_url) ==
  IF var \notin Keys(row) THEN Return(PyNone)
  ELSE IF row[var].type \notin DOMAIN VALUE_TYPES
       THEN Raise("ValueError", <<"Unknown type: ", row[var].type>>)
       ELSE IF full_data
            THEN Return(valtype(VALUE_TYPES[row[var].type], row[var], entity_url))
            ELSE Return(PyStr(row[var].value))

\* the body of "for var in qvars" for one variable
bindValue(row, var, full_data, entity_url) ==
  IF var \notin Keys(row) THEN Return(PyNone)
  ELSE IF full_data
       THEN IF row[var].type \notin DOMAIN VALUE_TYPES
            THEN Raise("ValueError", <<"Unknown type: ", row[var].type>>)
            ELSE Return(valtype(VALUE_TYPES[row[var].type], row[var], entity_url))
       ELSE Return(PyStr(row[var].value))

\* the inner loop: the dict after the first k variables, or the error raised
RECURSIVE rowValues(_, _, _, _, _)
rowValues(row, qvars, k, full_data, entity_url) ==
  IF k = 0 THEN Return(PyDict(<<>>, <<>>))
  ELSE LET values == rowValues(row, qvars, k - 1, full_data, entity_url) IN
       IF values.kind = "raise" THEN values
       ELSE LET v == bindValue(row, qvars[k], full_data, entity_url) IN
            IF v.kind = "raise" THEN v
            ELSE Return(dictSet(values.value, qvars[k], v.value))

\* variant: a row that fails to decode ends the loop, the rows decoded so
\* far are returned
RECURSIVE selectRowsPartial(_, _, _, _, _)
selectRowsPartial(bindings, qvars, n, full_data, entity_url) ==
  IF n = 0 THEN Return(PyList(<<>>))
  ELSE LET result == selectRowsPartial(bindings, qvars, n - 1, full_data, entity_url) IN
       IF Len(result.value.items) < n - 1 THEN result
       ELSE LET values == rowValues(bindings[n], qvars, Len(qvars), full_data, entity_url) IN
            IF values.kind = "raise" THEN result
            ELSE Return(PyList(Append(result.value.items, values.value)))

\* the outer loop: the list after the first n rows, or the error raised
RECURSIVE selectRows(_, _, _, _, _)
selectRows(bindings, qvars, n, full_data, entity_url) ==
  IF n = 0 THEN Return(PyList(<<>>))
  ELSE LET result == selectRows(bindings, qvars, n - 1, full_data, entity_url) IN
       IF result.kind = "raise" THEN result
       ELSE LET values == rowValues(bindings[n], qvars, Len(qvars), full_data, entity_url) IN
            IF values.kind = "raise" THEN values
            ELSE Return(PyList(Append(result.value.items, values.value)))

\* "not data" for what query() returns
NotData(data) == data = PyNone \/ Keys(data.doc) = {}

\* variant: a document without binding rows counts as no data
selectEmptyNull(q, full_data, entity_url) ==
  IF q.kind = "raise" THEN q
  ELSE IF NotData(q.value) \/ "results" \notin Keys(q.value.doc) THEN Return(PyNone)
  ELSE IF "head" \notin Keys(q.value.doc) THEN Raise("KeyError", <<"head">>)
  ELSE IF q.value.doc.results.bindings = <<>> THEN Return(PyNone)
  ELSE LET data == q.value.doc IN
       selectRows(data.results.bindings, data.head.vars,
                  Len(data.results.bindings), full_data, entity_url)

\* select() given how its query() call ended
select(q, full_data, entity_url) ==
  IF q.kind = "raise" THEN q
  ELSE IF NotData(q.value) \/ "results" \notin Keys(q.value.doc) THEN Return(PyNone)
  ELSE IF "head" \notin Keys(q.value.doc) THEN Raise("KeyError", <<"head">>)
  ELSE LET data == q.value.doc IN
       selectRows(data.results.bindings, data.head.vars,
                  Len(data.results.bindings), full_data, entity_url)

(***************************************************************************)
(* SparqlQuery.ask and SparqlQuery.get_items.                              *)
(***************************************************************************)
\* variant: data.get('boolean'), None when the key is missing
askDefault(q) ==
  IF q.kind = "raise" THEN q
  ELSE IF q.value = PyNone THEN Raise("TypeError", <<"'NoneType' object is not subscriptable">>)
  ELSE IF "boolean" \notin Keys(q.value.doc) THEN Return(PyNone)
  ELSE Return(PyBool(q.value.doc.boolean))

\* ask() given how its query() call ended: data['boolean']
ask(q) ==
  IF q.kind = "raise" THEN q
  ELSE IF q.value = PyNone THEN Raise("TypeError", <<"'NoneType' object is not subscriptable">>)
  ELSE IF "boolean" \notin Keys(q.value.doc) THEN Raise("KeyError", <<"boolean">>)
  ELSE Return(PyBool(q.value.doc.boolean))

\* r[item_name].getID() for one row of the select() result
rowID(r, item_name) ==
  IF item_name \notin Keys(r.get) THEN Raise("KeyError", <<item_name>>)
  ELSE IF r.get[item_name].t # "URI" THEN Raise("AttributeError", <<"getID">>)
  ELSE Return(getID(r.get[item_name]))

\* variant: a row without an id is skipped
RECURSIVE rowIDsSkip(_, _, _)
rowIDsSkip(res, item_name, n) ==
  IF n = 0 THEN Return(<<>>)
  ELSE LET ids == rowIDsSkip(res, item_name, n - 1)
           id == rowID(res[n], item_name)
       IN IF id.kind = "raise" \/ id.value = PyNone THEN ids
          ELSE Return(Append(ids.value, id.value))

\* the generator consumed by result_type: the ids of the first n rows, or the error
RECURSIVE rowIDs(_, _, _)
rowIDs(res, item_name, n) ==
  IF n = 0 THEN Return(<<>>)
  ELSE LET ids == rowIDs(res, item_name, n - 1) IN
       IF ids.kind = "raise" THEN ids
       ELSE LET id == rowID(res[n], item_name) IN
            IF id.kind = "raise" THEN id ELSE Return(Append(ids.value, id.value))

\* variant: the ids are always collected into a set
containerSet(result_type, ids) == PySet({ids[i] : i \in DOMAIN ids})

\* result_type(iterable): set or list
container(result_type, ids) ==
  IF result_type = "set" THEN PySet({ids[i] : i \in DOMAIN ids}) ELSE PyList(ids)

\* get_items() given how its select(query, full_data=True) call ended
get_items(sel, item_name, result_type) ==
  IF sel.kind = "raise" THEN sel
  ELSE IF sel.value = PyNone \/ sel.value.items = <<>> THEN Return(container(result_type, <<>>))
  ELSE LET ids == rowIDs(sel.value.items, item_name, Len(sel.value.items)) IN
       IF ids.kind = "raise" THEN ids
       ELSE Return(container(result_type, ids.value))

(***************************************************************************)
(* Construction: SparqlQuery.__init__.                                     *)
(***************************************************************************)
\* Wikibase sites as the constructor sees them: sparql_endpoint either
\* yields a value or raises, concept_base_uri is a str
RepoWikidata == [sparql_endpoint |-> Return(PyStr(WikidataEndpoint)), concept_base_uri |-> PyStr(EntityUrl)]
RepoCommons == [sparql_endpoint |-> Return(PyStr(CommonsEndpoint)), concept_base_uri |-> PyStr(EntityUrl)]
RepoNoEndpoint == [sparql_endpoint |-> Return(PyNone), concept_base_uri |-> PyStr(EntityUrl)]
RepoEmptyEndpoint == [sparql_endpoint |-> Return(PyStr(<<>>)), concept_base_uri |-> PyStr(EntityUrl)]
RepoOld == [sparql_endpoint |-> Raise("NotImplementedError", <<>>), concept_base_uri |-> PyStr(EntityUrl)]
RepoNoConcept == [sparql_endpoint |-> Return(PyStr(WikidataEndpoint)), concept_base_uri |-> PyStr(<<>>)]
Repos == {RepoWikidata, RepoCommons, RepoNoEndpoint, RepoEmptyEndpoint, RepoOld, RepoNoConcept}

CtorArgs ==
  [endpoint : {PyNone, PyStr(<<>>), PyStr(CommonsEndpoint), PyStr(WikidataEndpoint)},
   entity_url : {PyNone, PyStr(<<>>), PyStr(EntityUrl)},
   repo : {PyNone} \cup Repos]

Constructed(ep, eu) == [error |-> NoResult, endpoint |-> ep, entity_url |-> eu]
Failed(exc) == [error |-> Raise(exc, <<>>), endpoint |-> PyNone, entity_url |-> PyNone]

\* the object __init__ leaves, or the error it raises
init(a) ==
  LET repo == IF a.repo = PyNone /\ Falsy(a.endpoint) THEN RepoWikidata ELSE a.repo IN
  IF repo # PyNone
  THEN IF repo.sparql_endpoint.kind = "raise" THEN Failed("NotImplementedError")
       ELSE IF Falsy(repo.sparql_endpoint.value) THEN Failed("Error")
       ELSE Constructed(repo.sparql_endpoint.value, repo.concept_base_uri)
  ELSE IF Falsy(a.entity_url) THEN Failed("Error")
       ELSE Constructed(a.endpoint, a.entity_url)

(***************************************************************************)
(* The calls a caller makes.                                               *)
(***************************************************************************)
\* the query text and the headers argument of a call; the second query text
\* mentions the commons-query host
Requests == {[query |-> <<"ASK", " ", "{}">>, headers |-> PyNone],
             [query |-> <<"SELECT", " ", CommonsHost>>, headers |-> CustomHeaders]}

Ops ==
  {[name |-> "query"], [name |-> "ask"],
   [name |-> "select", full_data |-> FALSE], [name |-> "select", full_data |-> TRUE],
   [name |-> "get_items", item_name |-> "item", result_type |-> "set"]}

\* the headers query() ends up with: get_items passes none on, the others
\* pass theirs, and None becomes DEFAULT_HEADERS
headersOf(o, h) == IF o.name = "get_items" \/ h = PyNone THEN DEFAULT_HEADERS ELSE h

\* what the public method makes of the way its query() call ended
finish(o, q, entity_url) ==
  CASE o.name = "query" -> q
    [] o.name = "ask" -> ask(q)
    [] o.name = "select" -> select(q, o.full_data, entity_url)
    [] o.name = "get_items" ->
         get_items(select(q, TRUE, entity_url), o.item_name, o.result_type)

(***************************************************************************)
(* State.                                                                  *)
(***************************************************************************)
VARIABLES
  \* per client instance
  init_error,        \* the error __init__ raised, NoResult when constructed
  endpoint, entity_url, max_retries, retry_wait,
  last_response,     \* self.last_response
  current_retries,   \* the retry counter of the wait primitive
  \* per calling thread
  pc,                \* "idle", "fetch" (at http.fetch), "decode" (at .json()),
                     \* "except" (in the except clause of .json())
  self,              \* the client the call runs on
  op,                \* the public method called and its mode arguments
  args,              \* the query text and headers argument of the call
  url, headers,      \* the locals of query()
  result,            \* how the last finished call ended
  \* history of the running or last finished call
  transport,         \* what the last http.fetch of this call did
  fetched,           \* the response http.fetch returned to this call
  attempts,          \* the (url, headers) of every http.fetch call, in order
  timeouts,          \* number of Timeout exceptions caught
  waits,             \* number of self.wait() calls
  stale,             \* the call found an earlier response in last_response
                     \* and has not received one of its own yet
  \* the environment
  net                \* what http.fetch does with a query text, when the
                     \* transport is deterministic; AnyTransport otherwise

clientVars == <<init_error, endpoint, entity_url, max_retries, retry_wait,
                last_response, current_retries>>
threadVars == <<pc, self, op, args, url, headers, result>>
historyVars == <<transport, fetched, attempts, timeouts, waits, stale>>
vars == <<clientVars, threadVars, historyVars, net>>

NoOp == [name |-> "none"]
NoClient == "none"
\* http.fetch is free to time out, fail or return any response
AnyTransport == "any"

\* SparqlQuery.get_last_response
get_last_response(c) == last_response[c]

\* both clients come from the same constructor call; no call has been made
Start ==
  /\ \E a \in CtorArgs :
       LET obj == init(a) IN
       /\ init_error = [c \in Clients |-> obj.error]
       /\ endpoint = [c \in Clients |-> obj.endpoint]
       /\ entity_url = [c \in Clients |-> obj.entity_url]
  /\ max_retries = [c \in Clients |-> MaxRetries]
  /\ retry_wait = [c \in Clients |-> "config.retry_wait"]
  /\ last_response = [c \in Clients |-> PyNone]
  /\ current_retries = [c \in Clients |-> 0]
  /\ pc = [t \in Threads |-> "idle"]
  /\ self = [t \in Threads |-> NoClient]
  /\ op = [t \in Threads |-> NoOp]
  /\ args = [t \in Threads |-> PyNone]
  /\ url = [t \in Threads |-> <<>>]
  /\ headers = [t \in Threads |-> PyNone]
  /\ result = [t \in Threads |-> NoResult]
  /\ transport = [t \in Threads |-> "none"]
  /\ fetched = [t \in Threads |-> PyNone]
  /\ attempts = [t \in Threads |-> <<>>]
  /\ timeouts = [t \in Threads |-> 0]
  /\ waits = [t \in Threads |-> 0]
  /\ stale = [t \in Threads |-> FALSE]

Init == Start /\ net = AnyTransport

(***************************************************************************)
(* Actions.                                                                *)
(***************************************************************************)
\* variant: the request URL is kept in self.endpoint
CallStoresUrl(t, c, O) ==
  /\ pc[t] = "idle"
  /\ UNCHANGED net
  /\ init_error[c] = NoResult
  /\ \E o \in O, r \in Requests :
       /\ op' = [op EXCEPT ![t] = o]
       /\ args' = [args EXCEPT ![t] = r]
       /\ headers' = [headers EXCEPT ![t] = headersOf(o, r.headers)]
       /\ url' = [url EXCEPT ![t] = endpoint[c].s \o <<"?query=">> \o quote(r.query)]
  /\ self' = [self EXCEPT ![t] = c]
  /\ last_response' = [last_response EXCEPT ![c] = PyNone]
  /\ pc' = [pc EXCEPT ![t] = "fetch"]
  /\ result' = [result EXCEPT ![t] = NoResult]
  /\ transport' = [transport EXCEPT ![t] = "none"]
  /\ fetched' = [fetched EXCEPT ![t] = PyNone]
  /\ attempts' = [attempts EXCEPT ![t] = <<>>]
  /\ timeouts' = [timeouts EXCEPT ![t] = 0]
  /\ waits' = [waits EXCEPT ![t] = 0]
  /\ stale' = [stale EXCEPT ![t] = last_response[c] # PyNone]
  /\ endpoint' = [endpoint EXCEPT ![c] = PyStr(url'[t])]
  /\ UNCHANGED <<init_error, entity_url, max_retries, retry_wait, current_retries>>

\* variant: query() does not clear last_response when it starts
CallNoClear(t, c, O) ==
  /\ pc[t] = "idle"
  /\ UNCHANGED net
  /\ init_error[c] = NoResult
  /\ \E o \in O, r \in Requests :
       /\ op' = [op EXCEPT ![t] = o]
       /\ args' = [args EXCEPT ![t] = r]
       /\ headers' = [headers EXCEPT ![t] = headersOf(o, r.headers)]
       /\ url' = [url EXCEPT ![t] = endpoint[c].s \o <<"?query=">> \o quote(r.query)]
  /\ self' = [self EXCEPT ![t] = c]
  /\ pc' = [pc EXCEPT ![t] = "fetch"]
  /\ result' = [result EXCEPT ![t] = NoResult]
  /\ transport' = [transport EXCEPT ![t] = "none"]
  /\ fetched' = [fetched EXCEPT ![t] = PyNone]
  /\ attempts' = [attempts EXCEPT ![t] = <<>>]
  /\ timeouts' = [timeouts EXCEPT ![t] = 0]
  /\ waits' = [waits EXCEPT ![t] = 0]
  /\ stale' = [stale EXCEPT ![t] = last_response[c] # PyNone]
  /\ UNCHANGED clientVars

\* A public method is called on a constructed client; control reaches
\* query(), which clears last_response and builds the URL (lines 149-155).
Call(t, c, O) ==
  /\ pc[t] = "idle"
  /\ UNCHANGED net
  /\ init_error[c] = NoResult
  /\ \E o \in O, r \in Requests :
       /\ op' = [op EXCEPT ![t] = o]
       /\ args' = [args EXCEPT ![t] = r]
       /\ headers' = [headers EXCEPT ![t] = headersOf(o, r.headers)]
       /\ url' = [url EXCEPT ![t] = endpoint[c].s \o <<"?query=">> \o quote(r.query)]
  /\ self' = [self EXCEPT ![t] = c]
  /\ last_response' = [last_response EXCEPT ![c] = PyNone]
  /\ pc' = [pc EXCEPT ![t] = "fetch"]
  /\ result' = [result EXCEPT ![t] = NoResult]
  /\ transport' = [transport EXCEPT ![t] = "none"]
  /\ fetched' = [fetched EXCEPT ![t] = PyNone]
  /\ attempts' = [attempts EXCEPT ![t] = <<>>]
  /\ timeouts' = [timeouts EXCEPT ![t] = 0]
  /\ waits' = [waits EXCEPT ![t] = 0]
  /\ stale' = [stale EXCEPT ![t] = last_response[c] # PyNone]
  /\ UNCHANGED <<init_error, endpoint, entity_url, max_retries, retry_wait, current_retries>>

\* variant: last_response is an attribute of the class, shared by all clients
FetchOkShared(t, R) ==
  /\ pc[t] = "fetch"
  /\ UNCHANGED net
  /\ \E resp \in R :
       /\ last_response' = [c \in Clients |-> resp]
       /\ fetched' = [fetched EXCEPT ![t] = resp]
  /\ transport' = [transport EXCEPT ![t] = "response"]
  /\ attempts' = [attempts EXCEPT ![t] = Append(@, [url |-> url[t], headers |-> headers[t]])]
  /\ pc' = [pc EXCEPT ![t] = "decode"]
  /\ stale' = [stale EXCEPT ![t] = FALSE]
  /\ UNCHANGED <<init_error, endpoint, entity_url, max_retries, retry_wait, current_retries>>
  /\ UNCHANGED <<self, op, args, url, headers, result, timeouts, waits>>

\* http.fetch returns a response: it is stored and the loop is left (158-159)
FetchOk(t, R) ==
  /\ pc[t] = "fetch"
  /\ UNCHANGED net
  /\ \E resp \in R :
       /\ last_response' = [last_response EXCEPT ![self[t]] = resp]
       /\ fetched' = [fetched EXCEPT ![t] = resp]
  /\ transport' = [transport EXCEPT ![t] = "response"]
  /\ attempts' = [attempts EXCEPT ![t] = Append(@, [url |-> url[t], headers |-> headers[t]])]
  /\ pc' = [pc EXCEPT ![t] = "decode"]
  /\ stale' = [stale EXCEPT ![t] = FALSE]
  /\ UNCHANGED <<init_error, endpoint, entity_url, max_retries, retry_wait, current_retries>>
  /\ UNCHANGED <<self, op, args, url, headers, result, timeouts, waits>>

\* WaitingMixin.wait: count the retry, raise once the budget is used up,
\* otherwise sleep and return
Wait(t, c) ==
  /\ current_retries' = [current_retries EXCEPT ![c] = @ + 1]
  /\ waits' = [waits EXCEPT ![t] = @ + 1]
  /\ IF current_retries[c] + 1 > max_retries[c]
     THEN /\ result' = [result EXCEPT ![t] =
                          Raise("TimeoutError", <<"Maximum retries attempted without success.">>)]
          /\ pc' = [pc EXCEPT ![t] = "idle"]
     ELSE UNCHANGED <<result, pc>>

\* variant: a Timeout is retried without calling wait()
FetchTimeoutNoWait(t) ==
  /\ pc[t] = "fetch"
  /\ UNCHANGED net
  /\ attempts' = [attempts EXCEPT ![t] = Append(@, [url |-> url[t], headers |-> headers[t]])]
  /\ timeouts' = [timeouts EXCEPT ![t] = @ + 1]
  /\ transport' = [transport EXCEPT ![t] = "timeout"]
  /\ UNCHANGED clientVars
  /\ UNCHANGED <<pc, self, op, args, url, headers, result, fetched, waits, stale>>

\* variant: the retry falls back to the default headers
FetchTimeoutDefaultHeaders(t) ==
  /\ pc[t] = "fetch"
  /\ UNCHANGED net
  /\ current_retries[self[t]] <= max_retries[self[t]] + MaxOverrun
  /\ attempts' = [attempts EXCEPT ![t] = Append(@, [url |-> url[t], headers |-> headers[t]])]
  /\ timeouts' = [timeouts EXCEPT ![t] = @ + 1]
  /\ transport' = [transport EXCEPT ![t] = "timeout"]
  /\ headers' = [headers EXCEPT ![t] = DEFAULT_HEADERS]
  /\ Wait(t, self[t])
  /\ UNCHANGED <<init_error, endpoint, entity_url, max_retries, retry_wait, last_response>>
  /\ UNCHANGED <<self, op, args, url, fetched, stale>>

\* http.fetch raises Timeout: wait() and go round the loop (160-161)
FetchTimeout(t) ==
  /\ pc[t] = "fetch"
  /\ UNCHANGED net
  /\ current_retries[self[t]] <= max_retries[self[t]] + MaxOverrun
  /\ attempts' = [attempts EXCEPT ![t] = Append(@, [url |-> url[t], headers |-> headers[t]])]
  /\ timeouts' = [timeouts EXCEPT ![t] = @ + 1]
  /\ transport' = [transport EXCEPT ![t] = "timeout"]
  /\ Wait(t, self[t])
  /\ UNCHANGED <<init_error, endpoint, entity_url, max_retries, retry_wait, last_response>>
  /\ UNCHANGED <<self, op, args, url, headers, fetched, stale>>

\* variant: the except clause catches every transport error, not only Timeout
FetchErrorRetried(t) ==
  /\ pc[t] = "fetch"
  /\ UNCHANGED net
  /\ current_retries[self[t]] <= max_retries[self[t]] + MaxOverrun
  /\ attempts' = [attempts EXCEPT ![t] = Append(@, [url |-> url[t], headers |-> headers[t]])]
  /\ transport' = [transport EXCEPT ![t] = "error"]
  /\ Wait(t, self[t])
  /\ UNCHANGED <<init_error, endpoint, entity_url, max_retries, retry_wait, last_response>>
  /\ UNCHANGED <<self, op, args, url, headers, fetched, timeouts, stale>>

\* http.fetch raises something that is not a Timeout: nothing catches it
FetchError(t) ==
  /\ pc[t] = "fetch"
  /\ UNCHANGED net
  /\ attempts' = [attempts EXCEPT ![t] = Append(@, [url |-> url[t], headers |-> headers[t]])]
  /\ transport' = [transport EXCEPT ![t] = "error"]
  /\ result' = [result EXCEPT ![t] = Raise("ConnectionError", <<>>)]
  /\ pc' = [pc EXCEPT ![t] = "idle"]
  /\ UNCHANGED clientVars
  /\ UNCHANGED <<self, op, args, url, headers, fetched, timeouts, waits, stale>>

\* variant: the response is dropped from the handle once it has been decoded
DecodeClears(t) ==
  /\ pc[t] = "decode"
  /\ UNCHANGED net
  /\ LET j == tryJson(last_response[self[t]]) IN
     IF j.kind = "raise" /\ j.exc = "JSONDecodeError"
     THEN pc' = [pc EXCEPT ![t] = "except"] /\ UNCHANGED result
     ELSE /\ result' = [result EXCEPT ![t] = finish(op[t], j, entity_url[self[t]])]
          /\ pc' = [pc EXCEPT ![t] = "idle"]
  /\ last_response' = [last_response EXCEPT ![self[t]] = PyNone]
  /\ UNCHANGED <<init_error, endpoint, entity_url, max_retries, retry_wait, current_retries>>
  /\ UNCHANGED <<self, op, args, url, headers>>
  /\ UNCHANGED historyVars

\* lines 163-164: self.last_response.json(); when it decodes, query()
\* returns and the public method finishes on the document; JSONDecodeError
\* leads into the except clause, any other error leaves query()
Decode(t) ==
  /\ pc[t] = "decode"
  /\ UNCHANGED net
  /\ LET j == tryJson(last_response[self[t]]) IN
     IF j.kind = "raise" /\ j.exc = "JSONDecodeError"
     THEN pc' = [pc EXCEPT ![t] = "except"] /\ UNCHANGED result
     ELSE /\ result' = [result EXCEPT ![t] = finish(op[t], j, entity_url[self[t]])]
          /\ pc' = [pc EXCEPT ![t] = "idle"]
  /\ UNCHANGED clientVars
  /\ UNCHANGED <<self, op, args, url, headers>>
  /\ UNCHANGED historyVars

\* lines 165-183: the except clause reads self.last_response.content,
\* classifies the body, and the public method finishes on what query()
\* returned or raised
Classify(t) ==
  /\ pc[t] = "except"
  /\ UNCHANGED net
  /\ result' = [result EXCEPT ![t] =
       finish(op[t], classify(url[t], last_response[self[t]]), entity_url[self[t]])]
  /\ pc' = [pc EXCEPT ![t] = "idle"]
  /\ UNCHANGED clientVars
  /\ UNCHANGED <<self, op, args, url, headers>>
  /\ UNCHANGED historyVars

Next ==
  \E t \in SeqThreads, c \in SeqClients :
    \/ Call(t, c, Ops)
    \/ FetchOk(t, Responses)
    \/ FetchTimeout(t)
    \/ FetchError(t)
    \/ Decode(t)
    \/ Classify(t)

Spec == Init /\ [][Next]_vars

(***************************************************************************)
(* Vocabulary of the properties.                                           *)
(***************************************************************************)
\* thread t has made a call and the call is over
Finished(t) == pc[t] = "idle" /\ op[t] # NoOp
\* ... and the call got a response from the transport
Answered(t) == Finished(t) /\ transport[t] = "response"
\* the decoded document of the response the call got
TheDoc(t) == fetched[t].content[1].doc
\* the call got a SELECT document: head and results are present
GotSelectDoc(t) == Answered(t) /\ IsJson(fetched[t]) /\ {"head", "results"} \subseteq Keys(TheDoc(t))
\* the (row, variable) positions of a document where a declared variable is
\* bound to a descriptor whose type is none of uri, literal, bnode
Offending(doc) ==
  {p \in (DOMAIN doc.results.bindings) \X (DOMAIN doc.head.vars) :
     /\ doc.head.vars[p[2]] \in Keys(doc.results.bindings[p[1]])
     /\ doc.results.bindings[p[1]][doc.head.vars[p[2]]].type \notin {"uri", "literal", "bnode"}}

(***************************************************************************)
(* C1.  select() over a SELECT document (head.vars and results present;    *)
(* in full-data mode: every bound declared variable has a recognised       *)
(* type) returns a list with one mapping per binding row, in the order of  *)
(* results.bindings; the keys of every mapping are the declared variables  *)
(* in declared order; a declared variable missing from the row maps to     *)
(* None, and in raw mode a bound one maps to the 'value' of its descriptor.*)
(***************************************************************************)
C1_SelectProjection ==
  \A t \in Threads :
    (/\ GotSelectDoc(t)
     /\ op[t].name = "select"
     /\ op[t].full_data => Offending(TheDoc(t)) = {})
    => LET rows == TheDoc(t).results.bindings
           qvars == TheDoc(t).head.vars
       IN /\ result[t].kind = "return"
          /\ result[t].value.t = "list"
          /\ Len(result[t].value.items) = Len(rows)
          /\ \A i \in DOMAIN rows :
               LET m == result[t].value.items[i] IN
               /\ m.keys = qvars
               /\ Keys(m.get) = {qvars[k] : k \in DOMAIN qvars}
               /\ \A k \in DOMAIN qvars :
                    /\ qvars[k] \notin Keys(rows[i]) => m.get[qvars[k]] = PyNone
                    /\ (qvars[k] \in Keys(rows[i]) /\ ~op[t].full_data)
                         => m.get[qvars[k]] = PyStr(rows[i][qvars[k]].value)

\* a raw-mode select() returned over two different rows, the first of which
\* binds ?item but not the declared ?label
C1_Witness ==
  \E t \in Threads :
    /\ GotSelectDoc(t)
    /\ op[t].name = "select" /\ ~op[t].full_data
    /\ TheDoc(t).head.vars = <<"label", "item">>
    /\ Len(TheDoc(t).results.bindings) = 2
    /\ TheDoc(t).results.bindings[1] # TheDoc(t).results.bindings[2]
    /\ Keys(TheDoc(t).results.bindings[1]) = {"item"}
    /\ result[t].kind = "return"

(***************************************************************************)
(* C2.  In full-data mode, when some bound declared variable of some row   *)
(* has a descriptor whose type is none of uri, literal, bnode, select()    *)
(* raises ValueError naming that type and returns nothing, wherever the    *)
(* offending row is.                                                       *)
(***************************************************************************)
C2_UnknownTypeFails ==
  \A t \in Threads :
    (/\ GotSelectDoc(t)
     /\ op[t].name = "select" /\ op[t].full_data
     /\ Offending(TheDoc(t)) # {})
    => /\ result[t].kind = "raise"
       /\ result[t].exc = "ValueError"
       /\ \E p \in Offending(TheDoc(t)) :
            result[t].arg =
              <<"Unknown type: ", TheDoc(t).results.bindings[p[1]][TheDoc(t).head.vars[p[2]]].type>>

\* a full-data select() failed on a document whose first row decodes and
\* whose second row holds the unknown type
C2_Witness ==
  \E t \in Threads :
    /\ GotSelectDoc(t)
    /\ op[t].name = "select" /\ op[t].full_data
    /\ Offending(TheDoc(t)) = {<<2, 1>>}
    /\ Keys(TheDoc(t).results.bindings[1]) # {}
    /\ result[t].kind = "raise"

(***************************************************************************)
(* C3.  As claimed: select() fails on an unrecognised type tag of a bound  *)
(* declared variable in raw-value mode as well as in full-data mode.       *)
(***************************************************************************)
C3_Original ==
  \A t \in Threads :
    (/\ GotSelectDoc(t)
     /\ op[t].name = "select"
     /\ Offending(TheDoc(t)) # {})
    => result[t].kind = "raise"

(***************************************************************************)
(* C3, amended.  An unrecognised type tag of a bound declared variable is  *)
(* a hard failure (ValueError) of select() in full-data mode; in raw-value *)
(* mode the type tag is not looked at and select() returns, the variable   *)
(* mapped to the raw 'value' of the descriptor.                            *)
(***************************************************************************)
C3_Amended ==
  \A t \in Threads :
    (/\ GotSelectDoc(t)
     /\ op[t].name = "select"
     /\ Offending(TheDoc(t)) # {})
    => IF op[t].full_data
       THEN result[t].kind = "raise" /\ result[t].exc = "ValueError"
       ELSE /\ result[t].kind = "return"
            /\ \A p \in Offending(TheDoc(t)) :
                 LET var == TheDoc(t).head.vars[p[2]] IN
                 result[t].value.items[p[1]].get[var]
                   = PyStr(TheDoc(t).results.bindings[p[1]][var].value)

\* a raw-mode select() returned over a row with an unrecognised type tag
C3_Witness ==
  \E t \in Threads :
    /\ GotSelectDoc(t)
    /\ op[t].name = "select" /\ ~op[t].full_data
    /\ Offending(TheDoc(t)) # {}
    /\ result[t].kind = "return"

(***************************************************************************)
(* Vocabulary of the query() properties.                                   *)
(***************************************************************************)
\* the body the call got is the login wall: it starts with the HTML doctype
\* and holds one of the two login markers
WallBody(t) ==
  /\ Len(fetched[t].content) >= 1
  /\ fetched[t].content[1] = [kind |-> "text", s |-> DOCTYPE]
  /\ \E i \in DOMAIN fetched[t].content :
       fetched[t].content[i] \in {[kind |-> "text", s |-> "Special:UserLogin"],
                                  [kind |-> "text", s |-> "Special:OAuth"]}
\* the request URL of the call holds the commons-query host
CommonsUrl(t) == \E i \in DOMAIN url[t] : url[t][i] = CommonsHost
\* the request the arguments of the call stand for
RequestOf(t) ==
  [url |-> endpoint[self[t]].s \o <<"?query=">> \o quote(args[t].query),
   headers |-> headersOf(op[t], args[t].headers)]

(***************************************************************************)
(* C4.  When the body of the response is not valid JSON, query() raises    *)
(* NoUsernameError if and only if the body starts with '<!DOCTYPE html>',  *)
(* the request URL contains 'https://commons-query.wikimedia.org' and the  *)
(* body contains 'Special:UserLogin' or 'Special:OAuth'; otherwise it      *)
(* returns None and raises nothing.  A body that decodes as JSON never     *)
(* raises NoUsernameError.                                                 *)
(***************************************************************************)
C4_LoginWall ==
  \A t \in Threads :
    (Answered(t) /\ op[t].name = "query")
    => IF IsJson(fetched[t])
       THEN result[t].kind = "return"
       ELSE IF WallBody(t) /\ CommonsUrl(t)
            THEN result[t] = Raise("NoUsernameError", NotLoggedIn)
            ELSE result[t] = Return(PyNone)

(***************************************************************************)
(* C5.  When the body is not valid JSON and is not the login-wall case, no *)
(* error reaches the caller: query() and select() return None, get_items() *)
(* returns an empty container, ask() does not raise, and the last-response *)
(* handle still holds the undecodable response.                            *)
(***************************************************************************)
C5_DecodeFailureSwallowed ==
  \A t \in Threads :
    (Answered(t) /\ ~IsJson(fetched[t]) /\ ~(WallBody(t) /\ CommonsUrl(t)))
    => /\ result[t].kind = "return"
       /\ op[t].name \in {"query", "select"} => result[t].value = PyNone
       /\ op[t].name = "get_items" => result[t].value = container(op[t].result_type, <<>>)
       /\ get_last_response(self[t]) = fetched[t]

(***************************************************************************)
(* C6.  Every query() call terminates: each step of a running call         *)
(* strictly decreases a natural-number measure of the call, which is       *)
(* bounded by the retry budget of the wait primitive; the number of        *)
(* transport attempts of a call never exceeds that budget plus one, and a  *)
(* call that times out with the budget used up ends with the error of the  *)
(* wait primitive.                                                         *)
(***************************************************************************)
\* the steps a running call has left at most
CallMeasure(t) ==
  CASE pc[t] = "fetch" ->
         3 + (IF current_retries[self[t]] <= max_retries[self[t]]
              THEN max_retries[self[t]] + 1 - current_retries[self[t]] ELSE 0)
    [] pc[t] = "decode" -> 2
    [] pc[t] = "except" -> 1
    [] OTHER -> 0

C6_Terminates ==
  [][\A t \in Threads :
       pc[t] # "idle" =>
         /\ CallMeasure(t)' < CallMeasure(t)
         /\ CallMeasure(t)' >= 0
         /\ CallMeasure(t) <= max_retries[self[t]] + 4
         /\ Len(attempts'[t]) <= max_retries[self[t]] + 1
         /\ (transport'[t] = "timeout" /\ current_retries'[self[t]] > max_retries[self[t]])
              => /\ pc'[t] = "idle"
                 /\ result'[t] = Raise("TimeoutError",
                                       <<"Maximum retries attempted without success.">>)]_vars

\* a call used the whole budget: it made max_retries + 1 attempts, all of
\* which timed out, and ended with the error of the wait primitive
C6_Witness ==
  \E t \in Threads :
    /\ Finished(t)
    /\ result[t].kind = "raise" /\ result[t].exc = "TimeoutError"
    /\ Len(attempts[t]) = max_retries[self[t]] + 1
    /\ timeouts[t] = max_retries[self[t]] + 1

(***************************************************************************)
(* C7.  Timeouts within the budget are invisible to the caller: wait() has *)
(* been called once per timeout and never after a fetch that succeeded,    *)
(* every attempt of a call used the URL and headers of the call, and the   *)
(* call ends as the response it got makes it end, however many timeouts    *)
(* came before that response.                                              *)
(***************************************************************************)
C7_RetriesInvisible ==
  \A t \in Threads :
    op[t] # NoOp =>
      /\ waits[t] = timeouts[t]
      /\ \A i \in DOMAIN attempts[t] : attempts[t][i] = RequestOf(t)
      /\ transport[t] = "response" => Len(attempts[t]) = timeouts[t] + 1
      /\ Answered(t) =>
           result[t] = finish(op[t], queryDecode(RequestOf(t).url, fetched[t]),
                              entity_url[self[t]])

\* a call with custom headers timed out twice and then returned a document
C7_Witness ==
  \E t \in Threads :
    /\ Answered(t)
    /\ timeouts[t] >= 2
    /\ headers[t] = CustomHeaders
    /\ result[t].kind = "return" /\ result[t].value # PyNone

(***************************************************************************)
(* C8.  A transport error that is not a timeout ends query() at once: the  *)
(* error reaches the caller as it is, wait() is not called for it and no   *)
(* further transport attempt is made in that call.                         *)
(***************************************************************************)
C8_TransportErrorPropagates ==
  \A t \in Threads :
    transport[t] = "error" =>
      /\ pc[t] = "idle"
      /\ result[t] = Raise("ConnectionError", <<>>)
      /\ waits[t] = timeouts[t]
      /\ Len(attempts[t]) = timeouts[t] + 1

\* a call ended by a transport error on the attempt after one timeout
C8_Witness ==
  \E t \in Threads :
    /\ transport[t] = "error"
    /\ timeouts[t] = 1
    /\ result[t].kind = "raise"

(***************************************************************************)
(* C9.  From the start of a query() call until a transport attempt of that *)
(* call returns a response, get_last_response() is empty: a response of an *)
(* earlier call is never visible once a later call has started, also while *)
(* the later call is between retries.                                      *)
(***************************************************************************)
C9_ClearedAtStart ==
  \A t \in Threads : pc[t] = "fetch" => get_last_response(self[t]) = PyNone

\* a call that found an earlier response in the handle is between retries
C9_Witness ==
  \E t \in Threads : pc[t] = "fetch" /\ stale[t] /\ waits[t] >= 1

(***************************************************************************)
(* C10.  As claimed: after every failed call (login-wall error, parse      *)
(* failure, exhausted retries, other transport error) the last-response    *)
(* handle holds a transport response for the caller to inspect.            *)
(***************************************************************************)
C10_Original ==
  \A t \in Threads :
    (Finished(t) /\ result[t].kind = "raise") => get_last_response(self[t]) # PyNone

(***************************************************************************)
(* C10, amended.  A call that fails after the transport returned a         *)
(* response (login-wall error, or an error decoding or projecting the      *)
(* body) leaves that response in the last-response handle; a call that     *)
(* fails without a response (retries exhausted, other transport error)     *)
(* leaves the handle empty.                                                *)
(***************************************************************************)
C10_Amended ==
  \A t \in Threads :
    (Finished(t) /\ result[t].kind = "raise")
    => IF transport[t] = "response"
       THEN get_last_response(self[t]) = fetched[t] /\ fetched[t] # PyNone
       ELSE /\ get_last_response(self[t]) = PyNone
            /\ result[t].exc \in {"TimeoutError", "ConnectionError"}

\* a call failed with the login-wall error and the handle holds the page
C10_Witness ==
  \E t \in Threads :
    /\ Finished(t)
    /\ result[t] = Raise("NoUsernameError", NotLoggedIn)
    /\ get_last_response(self[t]) = fetched[t]
    /\ WallBody(t)

(***************************************************************************)
(* A deterministic transport: what http.fetch does is a function of the    *)
(* query text it is given.  Two call sites use one client, one call at a   *)
(* time.                                                                   *)
(***************************************************************************)
Queries == {r.query : r \in Requests}

\* the responses a deterministic transport answers with
DetResponses ==
  {[content |-> <<[kind |-> "json", doc |-> [boolean |-> TRUE]]>>],
   [content |-> <<[kind |-> "json", doc |-> <<>>]>>],
   [content |-> <<[kind |-> "json",
                   doc |-> [head |-> [vars |-> <<"item">>],
                            results |-> [bindings |-> <<MkRow(TermUriIn, Absent)>>]]]>>],
   [content |-> <<[kind |-> "text", s |-> DOCTYPE], [kind |-> "text", s |-> "Special:UserLogin"]>>],
   [content |-> <<[kind |-> "text", s |-> BadByte]>>]}

Behaviours ==
  {[kind |-> "timeout"], [kind |-> "error"]}
    \cup {[kind |-> "response", resp |-> r] : r \in DetResponses}

InitDet == Start /\ net \in [Queries -> Behaviours]

\* a call starts when no other call is running
DetCall(t, c) == (\A u \in Threads : pc[u] = "idle") /\ Call(t, c, Ops)
DetFetchOk(t) ==
  /\ pc[t] = "fetch"
  /\ net[args[t].query].kind = "response"
  /\ FetchOk(t, {net[args[t].query].resp})
DetFetchTimeout(t) ==
  /\ pc[t] = "fetch"
  /\ net[args[t].query].kind = "timeout"
  /\ FetchTimeout(t)
DetFetchError(t) ==
  /\ pc[t] = "fetch"
  /\ net[args[t].query].kind = "error"
  /\ FetchError(t)

NextDet ==
  \E t \in Threads, c \in SeqClients :
    \/ DetCall(t, c)
    \/ DetFetchOk(t)
    \/ DetFetchTimeout(t)
    \/ DetFetchError(t)
    \/ Decode(t)
    \/ Classify(t)

SpecDet == InitDet /\ [][NextDet]_vars

(***************************************************************************)
(* C11.  With a deterministic transport query() is repeatable: two calls   *)
(* of the same method with the same query and headers on the same client   *)
(* end the same way (the same value returned or the same error raised),    *)
(* got the same response, and the last-response handle holds that response *)
(* (nothing when they got none), whatever calls were made before and       *)
(* between them.                                                           *)
(***************************************************************************)
C11_Repeatable ==
  \A t, u \in Threads :
    (/\ t # u
     /\ Finished(t) /\ Finished(u)
     /\ self[t] = self[u] /\ op[t] = op[u] /\ args[t] = args[u])
    => /\ result[t] = result[u]
       /\ fetched[t] = fetched[u]
       /\ get_last_response(self[t]) = fetched[t]

\* two query() calls with the same arguments both ended with the error of
\* the wait primitive; the later one found the budget used up by the earlier
\* one and made a single attempt
C11_Witness ==
  \E t, u \in Threads :
    /\ t # u
    /\ Finished(t) /\ Finished(u)
    /\ self[t] = self[u] /\ op[t] = [name |-> "query"] /\ op[u] = op[t] /\ args[t] = args[u]
    /\ result[t].kind = "raise" /\ result[t].exc = "TimeoutError"
    /\ Len(attempts[t]) = max_retries[self[t]] + 1
    /\ Len(attempts[u]) = 1

(***************************************************************************)
(* C12.  ask() on a decoded document returns exactly the value of its      *)
(* 'boolean' field when the field is present; when the document has no     *)
(* 'boolean' field ask() raises KeyError for that key and returns nothing, *)
(* neither false nor None.                                                 *)
(***************************************************************************)
C12_AskBoolean ==
  \A t \in Threads :
    (Answered(t) /\ op[t].name = "ask" /\ IsJson(fetched[t]))
    => IF "boolean" \in Keys(TheDoc(t))
       THEN result[t] = Return(PyBool(TheDoc(t).boolean))
       ELSE result[t] = Raise("KeyError", <<"boolean">>)

\* ask() was answered with the empty JSON object and raised
C12_Witness ==
  \E t \in Threads :
    /\ Answered(t) /\ op[t].name = "ask"
    /\ IsJson(fetched[t]) /\ TheDoc(t) = <<>>
    /\ result[t].kind = "raise"

(***************************************************************************)
(* get_items() with both container types and both variable names, on one   *)
(* client used by one thread.                                              *)
(***************************************************************************)
ItemOps ==
  {[name |-> "get_items", item_name |-> "item", result_type |-> "set"],
   [name |-> "get_items", item_name |-> "item", result_type |-> "list"],
   [name |-> "get_items", item_name |-> "label", result_type |-> "set"]}

NextItems ==
  \E t \in SeqThreads, c \in SeqClients :
    \/ Call(t, c, ItemOps)
    \/ FetchOk(t, Responses)
    \/ FetchTimeout(t)
    \/ FetchError(t)
    \/ Decode(t)
    \/ Classify(t)

SpecItems == Init /\ [][NextItems]_vars

\* p is an exact prefix of v, chunk by chunk
IsPrefix(p, v) == Len(p) <= Len(v) /\ \A i \in 1..Len(p) : v[i] = p[i]
\* the identifier of the URI value v under the entity prefix p
IdOf(v, p) ==
  IF IsPrefix(p, v) THEN PyStr([i \in 1..(Len(v) - Len(p)) |-> v[Len(p) + i]]) ELSE PyNone
\* row i of the document binds the declared variable name to a uri term
UriRow(doc, i, name) ==
  /\ \E k \in DOMAIN doc.head.vars : doc.head.vars[k] = name
  /\ name \in Keys(doc.results.bindings[i])
  /\ doc.results.bindings[i][name].type = "uri"

(***************************************************************************)
(* C13.  get_items() over a SELECT document in which every row binds the   *)
(* named variable to a URI returns the container type asked for, holding   *)
(* the identifier of that URI for every row: a list has one entry per row  *)
(* in row order, duplicates included, a set holds each identifier once.    *)
(* When the document has no rows or no 'results' key, the result is the    *)
(* empty container of that type.                                           *)
(***************************************************************************)
C13_GetItems ==
  \A t \in Threads :
    (Answered(t) /\ op[t].name = "get_items" /\ IsJson(fetched[t]))
    => LET doc == TheDoc(t)
           name == op[t].item_name
           p == entity_url[self[t]].s
       IN /\ "results" \notin Keys(doc) =>
               result[t] = Return(IF op[t].result_type = "set" THEN PySet({}) ELSE PyList(<<>>))
          /\ (GotSelectDoc(t) /\ \A i \in DOMAIN doc.results.bindings : UriRow(doc, i, name)) =>
               LET rows == doc.results.bindings
                   ids == [i \in DOMAIN rows |-> IdOf(rows[i][name].value, p)]
               IN IF op[t].result_type = "set"
                  THEN /\ result[t] = Return(PySet({ids[i] : i \in DOMAIN rows}))
                       /\ Cardinality(result[t].value.elems) <= Len(rows)
                  ELSE /\ result[t] = Return(PyList(ids))
                       /\ Len(result[t].value.items) = Len(rows)

\* the default set container collapsed two rows with the same entity URI
\* into one identifier
C13_Witness ==
  \E t \in Threads :
    /\ GotSelectDoc(t) /\ op[t].name = "get_items" /\ op[t].result_type = "set"
    /\ Len(TheDoc(t).results.bindings) = 2
    /\ \A i \in 1..2 : UriRow(TheDoc(t), i, op[t].item_name)
    /\ result[t] = Return(PySet({PyStr(<<"Q1">>)}))

(***************************************************************************)
(* C14.  As claimed: select() returns None exactly when query() returned   *)
(* None, an empty document or a document without a 'results' key, in both  *)
(* modes; whenever the document has a 'results' key select() returns a     *)
(* list, which is the empty list (not None) when results.bindings is       *)
(* empty.                                                                  *)
(***************************************************************************)
C14_Original ==
  \A t \in Threads :
    (Answered(t) /\ op[t].name = "select")
    => IF IsJson(fetched[t]) /\ "results" \in Keys(TheDoc(t))
       THEN /\ result[t].kind = "return"
            /\ result[t].value.t = "list"
            /\ TheDoc(t).results.bindings = <<>> => result[t] = Return(PyList(<<>>))
       ELSE result[t].kind = "return" => result[t] = Return(PyNone)

(***************************************************************************)
(* C14, amended.  select() returns None exactly when query() returned      *)
(* None, an empty document or a document without a 'results' key, in both  *)
(* modes.  Whenever the document has a 'results' key select() does not     *)
(* return None: it returns a list, which is the empty list when the        *)
(* document has a head and results.bindings is empty, or it raises, which  *)
(* it does exactly when the document has no 'head' (KeyError) or, in       *)
(* full-data mode, when a bound declared variable has an unrecognised type *)
(* (ValueError).                                                           *)
(***************************************************************************)
C14_Amended ==
  \A t \in Threads :
    (Answered(t) /\ op[t].name = "select")
    => IF IsJson(fetched[t]) /\ "results" \in Keys(TheDoc(t))
       THEN IF "head" \notin Keys(TheDoc(t))
            THEN result[t] = Raise("KeyError", <<"head">>)
            ELSE IF op[t].full_data /\ Offending(TheDoc(t)) # {}
                 THEN result[t].kind = "raise" /\ result[t].exc = "ValueError"
                 ELSE /\ result[t].kind = "return"
                      /\ result[t].value.t = "list"
                      /\ TheDoc(t).results.bindings = <<>> => result[t] = Return(PyList(<<>>))
       ELSE /\ IsJson(fetched[t]) => result[t] = Return(PyNone)
            /\ result[t].kind = "return" => result[t] = Return(PyNone)

\* select() was answered with a SELECT document without binding rows and
\* returned the empty list
C14_Witness ==
  \E t \in Threads :
    /\ GotSelectDoc(t) /\ op[t].name = "select"
    /\ TheDoc(t).results.bindings = <<>>
    /\ result[t] = Return(PyList(<<>>))

(***************************************************************************)
(* C16.  Every constructed SparqlQuery has a non-empty endpoint and a      *)
(* non-empty entity_url: construction fails when either would be empty,    *)
(* also when they come from a repo.                                        *)
(***************************************************************************)
C16_ConstructedNonEmpty ==
  \A c \in Clients :
    init_error[c] = NoResult => ~Falsy(endpoint[c]) /\ ~Falsy(entity_url[c])

(***************************************************************************)
(* The node classes on their own: a caller builds a node from a term       *)
(* descriptor, as select() does, and calls getID() or repr() on it, once.  *)
(***************************************************************************)
EntityHost == "http://www.wikidata.org/entity"
UriChunks == {EntityHost, "HTTP://WWW.WIKIDATA.ORG/ENTITY", "/", "Q1"}
UriValues == SeqUpTo(UriChunks, MaxUri)
Prefixes == SeqUpTo(UriChunks, MaxPrefix)

UriData == {[type |-> "uri", value |-> v] : v \in UriValues}
BnodeData == {[type |-> "bnode", value |-> <<"b0">>]}
\* literal descriptors: 'datatype' and 'xml:lang' are optional keys
MkLiteral(v, dt, lang) ==
  [k \in {"type", "value"} \cup (IF dt = PyNone THEN {} ELSE {"datatype"})
                           \cup (IF lang = PyNone THEN {} ELSE {"xml:lang"})
     |-> CASE k = "type" -> "literal"
           [] k = "value" -> v
           [] k = "datatype" -> dt.s
           [] k = "xml:lang" -> lang.s]
LiteralData ==
  {MkLiteral(v, dt, lang) :
     v \in {<<"5">>, <<"chat">>, <<>>},
     dt \in {PyNone, PyStr(<<"xsd:int">>)}, lang \in {PyNone, PyStr(<<"fr">>)}}

\* node = URI(data, entity_url); node.getID()
CallGetID(t) ==
  /\ pc[t] = "idle"
  /\ UNCHANGED net
  /\ op[t] = NoOp
  /\ \E d \in UriData, p \in Prefixes :
       /\ args' = [args EXCEPT ![t] = [data |-> d, entity_url |-> PyStr(p)]]
       /\ result' = [result EXCEPT ![t] = Return(getID(valtype(VALUE_TYPES[d.type], d, PyStr(p))))]
  /\ op' = [op EXCEPT ![t] = [name |-> "getID"]]
  /\ UNCHANGED clientVars
  /\ UNCHANGED <<pc, self, url, headers>>
  /\ UNCHANGED historyVars

\* node = VALUE_TYPES[type](data, entity_url=...); repr(node)
CallRepr(t) ==
  /\ pc[t] = "idle"
  /\ UNCHANGED net
  /\ op[t] = NoOp
  /\ \E d \in UriData \cup BnodeData \cup LiteralData :
       /\ args' = [args EXCEPT ![t] = [data |-> d, entity_url |-> PyStr(<<EntityHost, "/">>)]]
       /\ result' = [result EXCEPT ![t] =
                       repr(valtype(VALUE_TYPES[d.type], d, PyStr(<<EntityHost, "/">>)))]
  /\ op' = [op EXCEPT ![t] = [name |-> "repr"]]
  /\ UNCHANGED clientVars
  /\ UNCHANGED <<pc, self, url, headers>>
  /\ UNCHANGED historyVars

NextNodes == \E t \in SeqThreads : CallGetID(t) \/ CallRepr(t)

SpecNodes == Init /\ [][NextNodes]_vars

(***************************************************************************)
(* C15.  For every URI value v and entity prefix p, getID() returns the    *)
(* remainder of v after p when p is an exact prefix of v, so that p        *)
(* followed by the identifier is v again, and returns None, raising        *)
(* nothing, when it is not: a prefix that differs from the start of v in   *)
(* case or by a trailing slash is no prefix.                               *)
(***************************************************************************)
C15_GetID ==
  \A t \in Threads :
    (Finished(t) /\ op[t].name = "getID")
    => LET v == args[t].data.value
           p == args[t].entity_url.s
       IN /\ result[t].kind = "return"
          /\ result[t].value = IdOf(v, p)
          /\ IF IsPrefix(p, v)
             THEN result[t].value.t = "str" /\ p \o result[t].value.s = v
             ELSE result[t].value = PyNone

\* getID() returned None for a value that starts with the prefix but for
\* the trailing slash of the prefix
C15_Witness ==
  \E t \in Threads :
    /\ Finished(t) /\ op[t].name = "getID"
    /\ args[t].entity_url.s = <<EntityHost, "/">>
    /\ args[t].data.value = <<EntityHost, "Q1">>
    /\ result[t] = Return(PyNone)

(***************************************************************************)
(* C17.  Rendering a node always yields a string fixed by the variant and  *)
(* the fields of its descriptor: a URI renders as '<value>', a blank node  *)
(* as '_:value', a literal as 'value^^datatype' when it has a datatype,    *)
(* also when it has a language tag as well, else as 'value@language' when  *)
(* it has a language tag, else as the bare value.                          *)
(***************************************************************************)
C17_Rendering ==
  \A t \in Threads :
    (Finished(t) /\ op[t].name = "repr")
    => LET d == args[t].data IN
       result[t] =
         Return(PyStr(
           CASE d.type = "uri" -> <<"<">> \o d.value \o <<">">>
             [] d.type = "bnode" -> <<"_:">> \o d.value
             [] d.type = "literal" ->
                  IF "datatype" \in DOMAIN d THEN d.value \o <<"^^">> \o d["datatype"]
                  ELSE IF "xml:lang" \in DOMAIN d THEN d.value \o <<"@">> \o d["xml:lang"]
                  ELSE d.value))

\* a literal with both a datatype and a language tag rendered with its
\* datatype
C17_Witness ==
  \E t \in Threads :
    /\ Finished(t) /\ op[t].name = "repr"
    /\ args[t].data.type = "literal"
    /\ {"datatype", "xml:lang"} \subseteq DOMAIN args[t].data
    /\ result[t] = Return(PyStr(<<"5", "^^", "xsd:int">>))

(***************************************************************************)
(* Two threads call query() at the same time, each thread on one client of *)
(* its own choice: on the same client or on two clients.  The steps of the *)
(* two calls interleave freely.                                            *)
(***************************************************************************)
ConcOps == {[name |-> "query"]}
ConcResponses ==
  {[content |-> <<[kind |-> "json", doc |-> [boolean |-> TRUE]]>>],
   [content |-> <<[kind |-> "json", doc |-> [boolean |-> FALSE]]>>],
   [content |-> <<[kind |-> "text", s |-> "junk"]>>]}

\* a thread keeps to the client of its first call
ConcCall(t, c) == self[t] \in {NoClient, c} /\ Call(t, c, ConcOps)

NextConc ==
  \E t \in Threads, c \in Clients :
    \/ ConcCall(t, c)
    \/ FetchOk(t, ConcResponses)
    \/ FetchTimeout(t)
    \/ FetchError(t)
    \/ Decode(t)
    \/ Classify(t)

SpecConc == Init /\ [][NextConc]_vars

\* another thread uses the client of thread t
Shared(t) == \E u \in Threads \ {t} : self[u] = self[t]
\* how the call of thread t ends when it decodes the response it fetched
OwnOutcome(t) == finish(op[t], queryDecode(url[t], fetched[t]), entity_url[self[t]])

(***************************************************************************)
(* C18.  Calls on separate clients never affect each other: while no other *)
(* thread uses its client, a call sees the handle empty until its own      *)
(* fetch returns and holding its own response from then on, and it ends as *)
(* its own response makes it end.  Hence a call that ends otherwise - that *)
(* returns what another call fetched, or fails on an empty handle - shares *)
(* its client with another thread.                                         *)
(***************************************************************************)
C18_RaceOnlyWhenShared ==
  \A t \in Threads :
    /\ (op[t] # NoOp /\ ~Shared(t)) =>
         /\ pc[t] = "fetch" => get_last_response(self[t]) = PyNone
         /\ pc[t] \in {"decode", "except"} => get_last_response(self[t]) = fetched[t]
         /\ Finished(t) => get_last_response(self[t]) = fetched[t]
         /\ Answered(t) => result[t] = OwnOutcome(t)
    /\ (Answered(t) /\ result[t] # OwnOutcome(t)) => Shared(t)

\* two calls interleaved on one client: a call returned the document the
\* other call fetched, not the one it fetched itself
C18_Witness ==
  \E t, u \in Threads :
    /\ t # u /\ self[t] = self[u]
    /\ Answered(t) /\ transport[u] = "response"
    /\ IsJson(fetched[t]) /\ IsJson(fetched[u])
    /\ fetched[u] # fetched[t]
    /\ result[t] = Return(PyJson(fetched[u].content[1].doc))

C20_NoFiltering ==
  \A t \in Threads :
    (/\ GotSelectDoc(t) /\ op[t].name = "get_items"
     /\ TheDoc(t).results.bindings # <<>>
     /\ Offending(TheDoc(t)) = {})
    => LET doc == TheDoc(t)
           name == op[t].item_name
           rows == doc.results.bindings
           p == entity_url[self[t]].s
       IN IF \A i \in DOMAIN rows : UriRow(doc, i, name)
          THEN /\ result[t].kind = "return"
               /\ op[t].result_type = "list" =>
                    /\ Len(result[t].value.items) = Len(rows)
                    /\ \A i \in DOMAIN rows :
                         result[t].value.items[i] = PyNone <=> ~IsPrefix(p, rows[i][name].value)
               /\ op[t].result_type = "set" =>
                    \A i \in DOMAIN rows :
                      /\ IdOf(rows[i][name].value, p) \in result[t].value.elems
                      /\ ~IsPrefix(p, rows[i][name].value) => PyNone \in result[t].value.elems
          ELSE /\ result[t].kind = "raise"
               /\ IF \E k \in DOMAIN doc.head.vars : doc.head.vars[k] = name
                  THEN result[t].exc = "AttributeError"
                  ELSE result[t] = Raise("KeyError", <<name>>)

\* the first row gave an identifier, the second binds the variable to a
\* literal: the call raised and returned nothing
C20_Witness ==
  \E t \in Threads :
    /\ GotSelectDoc(t) /\ op[t].name = "get_items"
    /\ Len(TheDoc(t).results.bindings) = 2
    /\ UriRow(TheDoc(t), 1, op[t].item_name)
    /\ op[t].item_name \in Keys(TheDoc(t).results.bindings[2])
    /\ TheDoc(t).results.bindings[2][op[t].item_name].type = "literal"
    /\ result[t].kind = "raise" /\ result[t].exc = "AttributeError"

====
